---- MODULE Spec2Model ----
(***************************************************************************)
(* Model of the Aadhaar OCR service: the /extract request handler          *)
(* (app/main.py) and the extraction pipeline (app/ocr_processor.py):       *)
(* extract_text_from_pdf, parse_aadhaar_details, validate_aadhaar.         *)
(*                                                                         *)
(* Strings are sequences of Unicode code points (Python's ord of each      *)
(* character), so that character classes, case folding and prefix tests    *)
(* are computed and not assumed.  The character classes are exact for the  *)
(* code points 0..255, the Arabic-Indic digits 1632..1641 and the Tamil    *)
(* block 2944..3071; the inputs the specifications draw stay inside them.  *)
(***************************************************************************)
EXTENDS Integers, Sequences, FiniteSets, TLC

VARIABLES
    pc,        \* position of the request / call being processed
    caller,    \* "boundary": POST /extract; "core": acquire_text called directly
    req,       \* the inputs of the call: filename, size, password, doc
    doc,       \* the fitz document handle: "none" | "open" | "closed"
    pageNo,    \* pages already read by the extraction loop
    text,      \* text accumulated by the loop / returned by acquire_text
    exc,       \* message of the exception in flight in acquire_text, "" if none
    outcome,   \* what acquire_text gave its caller
    data,      \* the AadhaarData record parsed at the boundary
    httpExc,   \* the HTTPException in flight in the handler, if any
    response,  \* the HTTP response of the boundary
    arg,       \* pure-function specifications: the argument drawn
    result     \* pure-function specifications: the value computed

vars ==
    <<pc, caller, req, doc, pageNo, text, exc, outcome, data, httpExc, response, arg, result>>

(***************************************************************************)
(* Characters and Python's str methods                                     *)
(***************************************************************************)

\* str.isspace, and \s of re on str patterns
IsSpace(c) ==
    \/ c \in 9..13
    \/ c \in 28..32
    \/ c \in {133, 160, 5760, 8232, 8233, 8239, 8287, 12288}
    \/ c \in 8192..8202

\* \d of re on str patterns: Unicode category Nd
IsDecimal(c) == c \in 48..57 \/ c \in 1632..1641 \/ c \in 3046..3055

\* str.isdigit of one character: Nd and the superscript digits
IsDigitChar(c) == IsDecimal(c) \/ c \in {178, 179, 185}

\* \w of re on str patterns: str.isalnum or the underscore
IsWord(c) ==
    \/ c \in 48..57 \/ c \in 65..90 \/ c = 95 \/ c \in 97..122
    \/ c \in {170, 178, 179, 181, 185, 186, 2947, 2972, 3024}
    \/ c \in 188..190 \/ c \in 192..214 \/ c \in 216..246 \/ c \in 248..255
    \/ c \in 1632..1641
    \/ c \in 2949..2954 \/ c \in 2958..2960 \/ c \in 2962..2965
    \/ c \in 2969..2970 \/ c \in 2974..2975 \/ c \in 2979..2980
    \/ c \in 2984..2986 \/ c \in 2990..3001 \/ c \in 3046..3058

\* [A-Za-z\s'-]
IsNameChar(c) == c \in 65..90 \/ c \in 97..122 \/ IsSpace(c) \/ c = 39 \/ c = 45

\* [\u0B80-\u0BFF\s]
IsTamilOrSpace(c) == c \in 2944..3071 \/ IsSpace(c)

\* [:\s]
IsColonOrSpace(c) == c = 58 \/ IsSpace(c)

\* str.lower and str.upper of one character
Lower(c) == IF c \in 65..90 \/ c \in 192..214 \/ c \in 216..222 THEN c + 32 ELSE c
Upper(c) == IF c \in 97..122 THEN c - 32 ELSE c

lower(s) == [i \in 1..Len(s) |-> Lower(s[i])]

\* s[a:b] with 1-based a and exclusive b
Slice(s, a, b) == IF a >= b THEN <<>> ELSE SubSeq(s, a, b - 1)

RECURSIVE FirstIn(_, _, _)
\* the least i in a..b with P(i), or 0 (by halving: strings can be long);
\* the scan of str.strip, ocr_processor.py line 162
FirstIn(P(_), a, b) ==
    IF a > b THEN 0
    ELSE IF a = b THEN (IF P(a) THEN a ELSE 0)
    ELSE LET OrRight(l) == IF l /= 0 THEN l ELSE FirstIn(P, (a + b) \div 2 + 1, b)
         IN  OrRight(FirstIn(P, a, (a + b) \div 2))

RECURSIVE LastIn(_, _, _)
\* the greatest i in a..b with P(i), or 0; the scan of str.strip from the right
LastIn(P(_), a, b) ==
    IF a > b THEN 0
    ELSE IF a = b THEN (IF P(a) THEN a ELSE 0)
    ELSE LET OrLeft(h) == IF h /= 0 THEN h ELSE LastIn(P, a, (a + b) \div 2)
         IN  OrLeft(LastIn(P, (a + b) \div 2 + 1, b))

\* str.strip(): from the first to the last character that is no whitespace
strip(s) ==
    LET Between(a, b) == IF a = 0 THEN <<>> ELSE Slice(s, a, b + 1)
    IN  Between(FirstIn(LAMBDA k : ~IsSpace(s[k]), 1, Len(s)),
                LastIn(LAMBDA k : ~IsSpace(s[k]), 1, Len(s)))

\* str.rstrip(c) for a one-character c
rstripChar(s, c) == Slice(s, 1, LastIn(LAMBDA k : s[k] /= c, 1, Len(s)) + 1)

\* str.replace(c, r) for a one-character c and r of at most one character
replace(s, c, r) ==
    IF r = <<>> THEN SelectSeq(s, LAMBDA x : x /= c)
    ELSE [i \in 1..Len(s) |-> IF s[i] = c THEN r[1] ELSE s[i]]

\* str.startswith / str.endswith
startswith(s, p) == Len(p) <= Len(s) /\ SubSeq(s, 1, Len(p)) = p
endswith(s, p) == Len(p) <= Len(s) /\ SubSeq(s, Len(s) - Len(p) + 1, Len(s)) = p

\* p in s
Contains(s, p) == \E i \in 1..(Len(s) - Len(p) + 1) : SubSeq(s, i, i + Len(p) - 1) = p

\* str.isdigit
isdigit(s) == s /= <<>> /\ \A i \in 1..Len(s) : IsDigitChar(s[i])

\* str.split(c) for a one-character c: a piece starts at 1 and after every c
split(s, c) ==
    LET Pieces(starts) ==
            [k \in 1..Len(starts) |->
                Slice(s, starts[k],
                      IF k < Len(starts) THEN starts[k + 1] - 1 ELSE Len(s) + 1)]
    IN  Pieces(SelectSeq([i \in 1..(Len(s) + 1) |-> i], LAMBDA i : i = 1 \/ s[i - 1] = c))

\* len(s.split()): the number of maximal runs of non-whitespace
WordCount(s) ==
    Cardinality({i \in 1..Len(s) : ~IsSpace(s[i]) /\ (i = 1 \/ IsSpace(s[i - 1]))})

\* str.capitalize()
capitalize(s) == [i \in 1..Len(s) |-> IF i = 1 THEN Upper(s[i]) ELSE Lower(s[i])]

RECURSIVE DigitsOf(_)
DigitsOf(n) == IF n < 10 THEN <<48 + n>> ELSE DigitsOf(n \div 10) \o <<48 + (n % 10)>>

\* str(n) of a natural number
str(n) == DigitsOf(n)

(***************************************************************************)
(* validate_aadhaar                                                        *)
(***************************************************************************)

validate_aadhaar(aadhaar_number) ==
    LET Valid(n) == n /= <<>> /\ isdigit(n) /\ Len(n) = 12
    IN  Valid(replace(aadhaar_number, 32, <<>>))

(***************************************************************************)
(* Python's re: matches are spans of the searched string.  A match is      *)
(* [s, e) with the spans of the groups the code reads; None is no match.   *)
(***************************************************************************)

None == [s |-> 0, e |-> 0, g1s |-> 0, g1e |-> 0, g2s |-> 0, g2e |-> 0]

Match(s, e, g1s, g1e, g2s, g2e) ==
    [s |-> s, e |-> e, g1s |-> g1s, g1e |-> g1e, g2s |-> g2s, g2e |-> g2e]

\* the value Python gives for an attribute of None: the call raises
AttributeError == <<-1>>

\* m.group(k), k in 1..2; on None it raises
group(t, m, k) ==
    IF m = None THEN AttributeError
    ELSE IF k = 1 THEN Slice(t, m.g1s, m.g1e) ELSE Slice(t, m.g2s, m.g2e)

\* the character at position i, or -1 outside the string
At(t, i) == IF i \in 1..Len(t) THEN t[i] ELSE -1

\* re.IGNORECASE on the letters of the patterns (all ASCII)
Fold(c) == IF c \in 65..90 THEN c + 32 ELSE c

\* the literal lit at position i; ic: under re.IGNORECASE
LitAt(t, i, lit, ic) ==
    /\ i + Len(lit) - 1 <= Len(t)
    /\ \A k \in 1..Len(lit) :
          IF ic THEN Fold(t[i + k - 1]) = Fold(lit[k]) ELSE t[i + k - 1] = lit[k]

\* \b at position i: between t[i-1] and t[i]
WordBoundary(t, i) == IsWord(At(t, i - 1)) /= IsWord(At(t, i))

\* \d{n} at position i
DigitsAt(t, i, n) == \A k \in i..(i + n - 1) : IsDecimal(At(t, k))

InClass(cls, c) ==
    CASE cls = "space" -> IsSpace(c)
      [] cls = "colonspace" -> IsColonOrSpace(c)
      [] cls = "name" -> IsNameChar(c)
      [] cls = "tamil" -> IsTamilOrSpace(c)
      [] cls = "dot" -> c /= 10 /\ c /= -1
      [] cls = "newline" -> c = 10

\* a greedy cls*: the position after the longest run of cls from i
RunEnd(cls, t, i) ==
    LET OrEnd(j) == IF j /= 0 THEN j ELSE IF i > Len(t) THEN i ELSE Len(t) + 1
    IN  OrEnd(FirstIn(LAMBDA k : ~InClass(cls, At(t, k)), i, Len(t)))

\* $ without re.MULTILINE: the end, or before a final newline
AtEnd(t, i) == i = Len(t) + 1 \/ (i = Len(t) /\ t[i] = 10)

Max(S) == CHOOSE x \in S : \A y \in S : y <= x

\* \d{4}\s\d{4}\s\d{4} at i
TwelveAt(t, i) ==
    /\ DigitsAt(t, i, 4) /\ IsSpace(At(t, i + 4))
    /\ DigitsAt(t, i + 5, 4) /\ IsSpace(At(t, i + 9))
    /\ DigitsAt(t, i + 10, 4)

\* \b(\d{4}\s\d{4}\s\d{4})\b
AadhaarAt(t, i) ==
    IF WordBoundary(t, i) /\ TwelveAt(t, i) /\ WordBoundary(t, i + 14)
    THEN Match(i, i + 14, i, i + 14, 0, 0) ELSE None

\* VID[:\s]*(\d{4}\s\d{4}\s\d{4}\s\d{4})
VidAt(t, i) ==
    IF ~LitAt(t, i, <<86, 73, 68>>, FALSE) THEN None
    ELSE LET j == RunEnd("colonspace", t, i + 3)
         IN  IF TwelveAt(t, j) /\ IsSpace(At(t, j + 14)) /\ DigitsAt(t, j + 15, 4)
             THEN Match(i, j + 19, j, j + 19, 0, 0) ELSE None

\* ([\u0B80-\u0BFF\s]+)\n([A-Za-z\s\'-]+): the first group is greedy, so the
\* newline is the last one of its run that a name character follows
TamilNameAt(t, i) ==
    LET Newlines(r) == {k \in (i + 1)..(r - 1) : t[k] = 10 /\ IsNameChar(At(t, k + 1))}
        Groups(k, e) == Match(i, e, i, k, k + 1, e)
        Last(K) == IF K = {} THEN None
                   ELSE LET k == Max(K) IN Groups(k, RunEnd("name", t, k + 1))
    IN  Last(Newlines(RunEnd("tamil", t, i)))

\* S/O|C/O|W/O|D/O under re.IGNORECASE
MarkerAt(t, i) ==
    /\ Fold(At(t, i)) \in {115, 99, 119, 100}
    /\ At(t, i + 1) = 47
    /\ Fold(At(t, i + 2)) = 111

\* \s*(?:S/O|C/O|W/O|D/O)\s*
MarkerSplitAt(t, i) ==
    LET Marker(j) ==
            IF MarkerAt(t, j) THEN Match(i, RunEnd("space", t, j + 3), 0, 0, 0, 0) ELSE None
    IN  Marker(RunEnd("space", t, i))

\* \s+[CWSD]\s*$
TrailingInitialAt(t, i) ==
    LET Initial(j) ==
            IF /\ j > i /\ At(t, j) \in {67, 87, 83, 68}
               /\ RunEnd("space", t, j + 1) = Len(t) + 1
            THEN Match(i, Len(t) + 1, 0, 0, 0, 0) ELSE None
    IN  Initial(RunEnd("space", t, i))

\* \s+
SpacesAt(t, i) ==
    IF IsSpace(At(t, i)) THEN Match(i, RunEnd("space", t, i), 0, 0, 0, 0) ELSE None

\* \n+
NewlinesAt(t, i) ==
    IF At(t, i) = 10 THEN Match(i, RunEnd("newline", t, i), 0, 0, 0, 0) ELSE None

\* (S/o|C/o|D/o|W/o)[.:]?\s*([A-Za-z\s\'-]+) under re.IGNORECASE.  \s* is
\* greedy and gives its last character back when no name character follows
GuardianAt(t, i) ==
    LET Name(p, w, n) ==
            IF n = p THEN None
            ELSE Match(i, n, i, i + 3, IF n > w THEN w ELSE w - 1, n)
        After(p) == Name(p, RunEnd("space", t, p), RunEnd("name", t, p))
    IN  IF ~MarkerAt(t, i) THEN None
        ELSE After(IF At(t, i + 3) \in {46, 58} THEN i + 4 ELSE i + 3)

\* (DOB|Date of Birth|D\\.O\\.B): the third alternative is D, a backslash,
\* any character, O, a backslash, any character, B
DobLabelEnd(t, i) ==
    IF LitAt(t, i, <<68, 79, 66>>, TRUE) THEN i + 3
    ELSE IF LitAt(t, i, <<68, 97, 116, 101, 32, 111, 102, 32, 66, 105, 114, 116, 104>>, TRUE)
    THEN i + 13
    ELSE IF /\ Fold(At(t, i)) = 100 /\ At(t, i + 1) = 92 /\ InClass("dot", At(t, i + 2))
            /\ Fold(At(t, i + 3)) = 111 /\ At(t, i + 4) = 92 /\ InClass("dot", At(t, i + 5))
            /\ Fold(At(t, i + 6)) = 98
    THEN i + 7
    ELSE 0

\* \d{1,2} at i: the length matched, given that [-/] must follow
OneOrTwoDigits(t, i) ==
    IF IsDecimal(At(t, i)) /\ IsDecimal(At(t, i + 1)) THEN 2
    ELSE IF IsDecimal(At(t, i)) THEN 1 ELSE 0

\* \d{1,2}[-/]\d{1,2}[-/]\d{4} at i: the end of the match, or 0
DateEnd(t, i) ==
    LET Year(d, m) ==
            IF /\ d > 0 /\ At(t, i + d) \in {45, 47}
               /\ m > 0 /\ At(t, i + d + 1 + m) \in {45, 47}
               /\ DigitsAt(t, i + d + m + 2, 4)
            THEN i + d + m + 6 ELSE 0
        Month(d) == Year(d, OneOrTwoDigits(t, i + d + 1))
    IN  Month(OneOrTwoDigits(t, i))

\* (DOB|Date of Birth|D\\.O\\.B)[:\s]*?(\d{1,2}[-/]\d{1,2}[-/]\d{4})
DobAt(t, i) ==
    LET Groups(l, j, e) == IF e = 0 THEN None ELSE Match(i, e, i, l, j, e)
        Date(l, j) == Groups(l, j, DateEnd(t, j))
        Label(l) == IF l = 0 THEN None ELSE Date(l, RunEnd("colonspace", t, l))
    IN  Label(DobLabelEnd(t, i))

\* one alternative of the gender pattern, with the closing \b
GenderWordAt(t, i, w) == LitAt(t, i, w, TRUE) /\ WordBoundary(t, i + Len(w))

GenderWords ==
    << <<77, 97, 108, 101>>,                                        \* Male
       <<70, 101, 109, 97, 108, 101>>,                              \* Female
       <<84, 114, 97, 110, 115, 103, 101, 110, 100, 101, 114>>,     \* Transgender
       <<77>>, <<70>>, <<84>> >>                                    \* M F T

\* \b(Male|Female|Transgender|M|F|T)\b under re.IGNORECASE
GenderAt(t, i) ==
    LET Word(a) == IF a = 0 THEN None
                   ELSE Match(i, i + Len(GenderWords[a]), i, i + Len(GenderWords[a]), 0, 0)
    IN  IF ~WordBoundary(t, i) THEN None
        ELSE Word(FirstIn(LAMBDA a : GenderWordAt(t, i, GenderWords[a]), 1, Len(GenderWords)))

\* (?=\nDistrict|\nState|\n\d{6}|\nVID|\nDigitally|$) under (?i)
AddressStopAt(t, i) ==
    \/ AtEnd(t, i)
    \/ /\ At(t, i) = 10
       /\ \/ LitAt(t, i + 1, <<68, 105, 115, 116, 114, 105, 99, 116>>, TRUE)
          \/ LitAt(t, i + 1, <<83, 116, 97, 116, 101>>, TRUE)
          \/ DigitsAt(t, i + 1, 6)
          \/ LitAt(t, i + 1, <<86, 73, 68>>, TRUE)
          \/ LitAt(t, i + 1, <<68, 105, 103, 105, 116, 97, 108, 108, 121>>, TRUE)

\* (.*?) with re.DOTALL before the lookahead: the first position that stops
LazyUntilStop(t, i) == FirstIn(LAMBDA k : AddressStopAt(t, k), i, Len(t) + 1)

\* (?i)address[:\s]*(.*?)(?=...)
AddressAt(t, i) ==
    LET Groups(j, q) == Match(i, q, j, q, 0, 0)
        Rest(j) == Groups(j, LazyUntilStop(t, j))
    IN  IF ~LitAt(t, i, <<97, 100, 100, 114, 101, 115, 115>>, TRUE) THEN None
        ELSE Rest(RunEnd("colonspace", t, i + 7))

\* .*?, : the position after the first comma of the line, or 0
CommaOnLine(t, i) ==
    LET Comma(j) == IF At(t, j) = 44 THEN j + 1 ELSE 0
    IN  Comma(FirstIn(LAMBDA k : At(t, k) = 44 \/ ~InClass("dot", At(t, k)), i, Len(t) + 1))

\* PO:.*?,
PostOfficeAt(t, i) ==
    LET Upto(e) == IF e = 0 THEN None ELSE Match(i, e, 0, 0, 0, 0)
    IN  Upto(IF LitAt(t, i, <<80, 79, 58>>, FALSE) THEN CommaOnLine(t, i + 3) ELSE 0)

\* (?i)\b(dist|state)\b.*
DistStateAt(t, i) ==
    LET Line(l) == IF l > 0 /\ WordBoundary(t, i) /\ WordBoundary(t, l)
                   THEN Match(i, RunEnd("dot", t, l), i, l, 0, 0) ELSE None
    IN  Line(IF LitAt(t, i, <<100, 105, 115, 116>>, TRUE) THEN i + 4
             ELSE IF LitAt(t, i, <<115, 116, 97, 116, 101>>, TRUE) THEN i + 5 ELSE 0)

\* label[:\s]*(.*) under re.IGNORECASE
LabelledLineAt(t, i, label) ==
    LET Groups(j, e) == Match(i, e, j, e, 0, 0)
        Rest(j) == Groups(j, RunEnd("dot", t, j))
    IN  IF ~LitAt(t, i, label, TRUE) THEN None
        ELSE Rest(RunEnd("colonspace", t, i + Len(label)))

\* \b(\d{n})\b
NumberAt(t, i, n) ==
    IF WordBoundary(t, i) /\ DigitsAt(t, i, n) /\ WordBoundary(t, i + n)
    THEN Match(i, i + n, i, i + n, 0, 0) ELSE None

\* District[:\s]*(.*) and State[:\s]*(.*) under re.IGNORECASE
DistrictAt(t, i) == LabelledLineAt(t, i, <<68, 105, 115, 116, 114, 105, 99, 116>>)
StateAt(t, i) == LabelledLineAt(t, i, <<83, 116, 97, 116, 101>>)

\* \b(\d{6})\b and \b(\d{10})\b
PincodeAt(t, i) == NumberAt(t, i, 6)
PhoneAt(t, i) == NumberAt(t, i, 10)

RECURSIVE FirstMatch(_, _, _, _)
\* the match of pattern M at the least position in a..b that has one (by halving)
FirstMatch(M(_, _), t, a, b) ==
    IF a > b THEN None
    ELSE IF a = b THEN M(t, a)
    ELSE LET OrRight(l) == IF l /= None THEN l ELSE FirstMatch(M, t, (a + b) \div 2 + 1, b)
         IN  OrRight(FirstMatch(M, t, a, (a + b) \div 2))

\* re.search(M, t): the leftmost match (ocr_processor.py lines 165-234)
search(M(_, _), t) == FirstMatch(M, t, 1, Len(t) + 1)

RECURSIVE SubFrom(_, _, _, _)
\* re.sub from position i on: each match replaced by r, left to right
SubFrom(M(_, _), r, t, i) ==
    LET Replaced(m) == IF m = None THEN Slice(t, i, Len(t) + 1)
                       ELSE Slice(t, i, m.s) \o r \o SubFrom(M, r, t, m.e)
    IN  Replaced(FirstMatch(M, t, i, Len(t) + 1))

\* re.sub(M, r, t), for patterns that match no empty string
\* (ocr_processor.py lines 154-155, 186-187, 210-215)
sub(M(_, _), r, t) == SubFrom(M, r, t, 1)

\* re.split(M, t)[0] (ocr_processor.py lines 153, 185)
split_first(M(_, _), t) ==
    LET Before(m) == IF m = None THEN t ELSE Slice(t, 1, m.s) IN Before(search(M, t))

(***************************************************************************)
(* extract_name_from_text and parse_aadhaar_details                        *)
(***************************************************************************)

unwanted_phrases ==
    { lower(<<68, 105, 103, 105, 116, 97, 108, 108, 121, 32, 115, 105, 103, 110, 101, 100, 32, 98, 121, 32, 68, 83, 32, 85, 110, 105, 113, 117, 101>>),     \* "Digitally signed by DS Unique"
      lower(<<73, 100, 101, 110, 116, 105, 102, 105, 99, 97, 116, 105, 111, 110, 32, 65, 117, 116, 104, 111, 114, 105, 116, 121, 32, 111, 102, 32, 73, 110, 100, 105, 97>>),     \* "Identification Authority of India"
      lower(<<71, 111, 118, 101, 114, 110, 109, 101, 110, 116, 32, 111, 102, 32, 73, 110, 100, 105, 97>>),     \* "Government of India"
      lower(<<83, 105, 103, 110, 97, 116, 117, 114, 101, 32, 78, 111, 116, 32, 86, 101, 114, 105, 102, 105, 101, 100>>) }    \* "Signature Not Verified"

\* the name-cleaning steps of extract_name_from_text, on a stripped line
clean_name_line(clean_line) ==
    sub(SpacesAt, <<32>>,
        strip(sub(TrailingInitialAt, <<>>, split_first(MarkerSplitAt, clean_line))))

\* re.match(r'^[A-Za-z\s\'-]+$', clean_line) and the two other conditions
is_name_line(clean_line) ==
    /\ clean_line /= <<>>
    /\ \A i \in 1..Len(clean_line) : IsNameChar(clean_line[i])
    /\ WordCount(clean_line) > 1
    /\ \A phrase \in unwanted_phrases : ~Contains(lower(clean_line), phrase)

\* the first line that is a name line, cleaned; "" when there is none
extract_name_from_text(lines) ==
    LET Name(k) == IF k = 0 THEN <<>> ELSE clean_name_line(strip(lines[k]))
    IN  Name(FirstIn(LAMBDA j : is_name_line(strip(lines[j])), 1, Len(lines)))

\* [line.strip() for line in text.split("\n") if line.strip()]
lines_of(t) ==
    LET Stripped(raw) == [k \in 1..Len(raw) |-> strip(raw[k])]
    IN  SelectSeq(Stripped(split(t, 10)), LAMBDA l : l /= <<>>)

\* lines 164-173: the number is stored whether or not it validates
aadhaar_number_of(t) ==
    LET Stored(aadhaar_number) ==
            IF validate_aadhaar(replace(aadhaar_number, 32, <<>>))
            THEN aadhaar_number ELSE aadhaar_number
        Field(m) == IF m /= None THEN Stored(group(t, m, 1)) ELSE <<>>
    IN  Field(search(AadhaarAt, t))

\* the VID field read without the `if vid_match:` of line 177
vid_unguarded(t) == group(t, search(VidAt, t), 1)

vid_of(t) ==
    LET Field(m) == IF m /= None THEN group(t, m, 1) ELSE <<>>
    IN  Field(search(VidAt, t))

name_tamil_of(t) ==
    LET Field(m) == IF m /= None THEN strip(group(t, m, 1)) ELSE <<>>
    IN  Field(search(TamilNameAt, t))

\* lines 184-187: the name taken from the line after the Tamil one
name_after_tamil(t) ==
    LET Cleaned(name) ==
            sub(SpacesAt, <<32>>,
                strip(sub(TrailingInitialAt, <<>>, strip(split_first(MarkerSplitAt, name)))))
        Field(m) ==
            IF m /= None THEN Cleaned(replace(strip(group(t, m, 2)), 10, <<32>>)) ELSE <<>>
    IN  Field(search(TamilNameAt, t))

\* lines 189-190: `if not data.name` falls back to the scan of the lines
name_of(t) ==
    LET OrScan(name) == IF name /= <<>> THEN name ELSE extract_name_from_text(lines_of(t))
    IN  OrScan(name_after_tamil(t))

guardian_name_of(t) ==
    LET Field(m) == IF m /= None THEN strip(group(t, m, 2)) ELSE <<>>
    IN  Field(search(GuardianAt, t))

dob_of(t) ==
    LET Field(m) == IF m /= None THEN replace(group(t, m, 2), 45, <<47>>) ELSE <<>>
    IN  Field(search(DobAt, t))

gender_of(t) ==
    LET Field(m) == IF m /= None THEN capitalize(group(t, m, 1)) ELSE <<>>
    IN  Field(search(GenderAt, t))

address_of(t) ==
    LET Cleaned(address_text) ==
            strip(sub(SpacesAt, <<32>>,
              strip(sub(NewlinesAt, <<32>>,
                sub(DistStateAt, <<>>,
                  sub(PostOfficeAt, <<>>,
                    sub(AadhaarAt, <<>>,
                      sub(GuardianAt, <<>>, address_text))))))))
        Field(m) == IF m /= None THEN Cleaned(strip(group(t, m, 1))) ELSE <<>>
    IN  Field(search(AddressAt, t))

district_of(t) ==
    LET Field(m) == IF m /= None THEN replace(strip(group(t, m, 1)), 44, <<>>) ELSE <<>>
    IN  Field(search(DistrictAt, t))

state_of(t) ==
    LET Field(m) == IF m /= None THEN rstripChar(strip(group(t, m, 1)), 44) ELSE <<>>
    IN  Field(search(StateAt, t))

pincode_of(t) ==
    LET Field(m) == IF m /= None THEN group(t, m, 1) ELSE <<>>
    IN  Field(search(PincodeAt, t))

phone_of(t) ==
    LET Field(m) == IF m /= None THEN group(t, m, 1) ELSE <<>>
    IN  Field(search(PhoneAt, t))

\* AadhaarData(): every field is the empty string
AadhaarData ==
    [aadhaar_number |-> <<>>, name_tamil |-> <<>>, name |-> <<>>, guardian_name |-> <<>>,
     dob |-> <<>>, gender |-> <<>>, address |-> <<>>, district |-> <<>>, state |-> <<>>,
     pincode |-> <<>>, phone |-> <<>>, vid |-> <<>>]

Fields == DOMAIN AadhaarData

\* The record parse_aadhaar_details returns, and whether it raised instead
parse_aadhaar_details(t) ==
    LET Result(d) ==
            IF \E f \in Fields : d[f] = AttributeError
            THEN [raised |-> TRUE, data |-> AadhaarData]
            ELSE [raised |-> FALSE, data |-> d]
    IN  Result([aadhaar_number |-> aadhaar_number_of(t),
              name_tamil |-> name_tamil_of(t),
              name |-> name_of(t),
              guardian_name |-> guardian_name_of(t),
              dob |-> dob_of(t),
              gender |-> gender_of(t),
              address |-> address_of(t),
              district |-> district_of(t),
              state |-> state_of(t),
              pincode |-> pincode_of(t),
              phone |-> phone_of(t),
              vid |-> vid_of(t)])

(***************************************************************************)
(* Messages of the exceptions and responses                                *)
(***************************************************************************)

\* "Empty PDF stream provided"
MsgEmptyStream ==
    <<69, 109, 112, 116, 121, 32, 80, 68, 70, 32, 115, 116, 114, 101, 97, 109, 32, 112, 114, 111, 118, 105, 100, 101, 100>>

\* "Invalid PDF format: "
PrefixInvalidFormat ==
    <<73, 110, 118, 97, 108, 105, 100, 32, 80, 68, 70, 32, 102, 111, 114, 109, 97, 116, 58, 32>>

\* "Password required for encrypted PDF"
MsgPasswordRequired ==
    <<80, 97, 115, 115, 119, 111, 114, 100, 32, 114, 101, 113, 117, 105, 114, 101, 100, 32, 102, 111, 114, 32, 101, 110, 99, 114, 121, 112, 116, 101, 100, 32, 80, 68, 70>>

\* "Invalid password provided for PDF"
MsgInvalidPassword ==
    <<73, 110, 118, 97, 108, 105, 100, 32, 112, 97, 115, 115, 119, 111, 114, 100, 32, 112, 114, 111, 118, 105, 100, 101, 100, 32, 102, 111, 114, 32, 80, 68, 70>>

\* "PDF decryption failed: "
PrefixDecryptionFailed ==
    <<80, 68, 70, 32, 100, 101, 99, 114, 121, 112, 116, 105, 111, 110, 32, 102, 97, 105, 108, 101, 100, 58, 32>>

\* "PDF is not encrypted, password not required"
MsgNotEncrypted ==
    <<80, 68, 70, 32, 105, 115, 32, 110, 111, 116, 32, 101, 110, 99, 114, 121, 112, 116, 101, 100, 44, 32, 112, 97, 115, 115, 119, 111, 114, 100, 32, 110, 111, 116, 32, 114, 101, 113, 117, 105, 114, 101, 100>>

\* "Error extracting text from page "
PrefixPageError ==
    <<69, 114, 114, 111, 114, 32, 101, 120, 116, 114, 97, 99, 116, 105, 110, 103, 32, 116, 101, 120, 116, 32, 102, 114, 111, 109, 32, 112, 97, 103, 101, 32>>

\* "No text could be extracted from the PDF"
MsgNoText ==
    <<78, 111, 32, 116, 101, 120, 116, 32, 99, 111, 117, 108, 100, 32, 98, 101, 32, 101, 120, 116, 114, 97, 99, 116, 101, 100, 32, 102, 114, 111, 109, 32, 116, 104, 101, 32, 80, 68, 70>>

\* "Failed to process PDF: "
PrefixFailed ==
    <<70, 97, 105, 108, 101, 100, 32, 116, 111, 32, 112, 114, 111, 99, 101, 115, 115, 32, 80, 68, 70, 58, 32>>

\* the prefixes line 127 lets through unwrapped
PassThroughPrefixes ==
    { <<80, 97, 115, 115, 119, 111, 114, 100, 32, 114, 101, 113, 117, 105, 114, 101, 100>>,     \* "Password required"
      <<73, 110, 118, 97, 108, 105, 100, 32, 112, 97, 115, 115, 119, 111, 114, 100>>,   \* "Invalid password"
      <<78, 111, 32, 116, 101, 120, 116, 32, 99, 111, 117, 108, 100, 32, 98, 101>> }   \* "No text could be"

\* "Password is required for encrypted PDF"
DetailPasswordRequired ==
    <<80, 97, 115, 115, 119, 111, 114, 100, 32, 105, 115, 32, 114, 101, 113, 117, 105, 114, 101, 100, 32, 102, 111, 114, 32, 101, 110, 99, 114, 121, 112, 116, 101, 100, 32, 80, 68, 70>>

\* "Only PDF files are supported"
DetailOnlyPdf ==
    <<79, 110, 108, 121, 32, 80, 68, 70, 32, 102, 105, 108, 101, 115, 32, 97, 114, 101, 32, 115, 117, 112, 112, 111, 114, 116, 101, 100>>

\* "File size exceeds 5MB limit"
DetailTooLarge ==
    <<70, 105, 108, 101, 32, 115, 105, 122, 101, 32, 101, 120, 99, 101, 101, 100, 115, 32, 53, 77, 66, 32, 108, 105, 109, 105, 116>>

\* "Error parsing Aadhaar details"
DetailParsing ==
    <<69, 114, 114, 111, 114, 32, 112, 97, 114, 115, 105, 110, 103, 32, 65, 97, 100, 104, 97, 97, 114, 32, 100, 101, 116, 97, 105, 108, 115>>

\* "Internal server error"
DetailInternal ==
    <<73, 110, 116, 101, 114, 110, 97, 108, 32, 115, 101, 114, 118, 101, 114, 32, 101, 114, 114, 111, 114>>

\* "Invalid Aadhaar number detected"
WarningInvalid ==
    <<73, 110, 118, 97, 108, 105, 100, 32, 65, 97, 100, 104, 97, 97, 114, 32, 110, 117, 109, 98, 101, 114, 32, 100, 101, 116, 101, 99, 116, 101, 100>>

(***************************************************************************)
(* Inputs: uploads, passwords and what the PDF library finds in the bytes  *)
(***************************************************************************)

\* at most this many pages in a document
MaxPages == 2

\* password=None of extract_text_from_pdf
NoPassword == <<-1>>

\* the password the encrypted documents open with: "pw"
DocPassword == <<112, 119>>

\* "", " ", "pw", "no"
Passwords == {<<>>, <<32>>, DocPassword, <<110, 111>>}

\* "a.pdf", "A.PDF", "a.txt"
Filenames == {<<97, 46, 112, 100, 102>>, <<65, 46, 80, 68, 70>>, <<97, 46, 116, 120, 116>>}

\* str(e) of the errors the PDF library raises: "Failed to open stream", "Invalid password"
LibraryErrors ==
    { <<70, 97, 105, 108, 101, 100, 32, 116, 111, 32, 111, 112, 101, 110, 32, 115, 116, 114, 101, 97, 109>>,
      <<73, 110, 118, 97, 108, 105, 100, 32, 112, 97, 115, 115, 119, 111, 114, 100>> }

\* "1234 5678 9012\nJohn Smith\n"
PageCard ==
    <<49, 50, 51, 52, 32, 53, 54, 55, 56, 32, 57, 48, 49, 50, 10, 74, 111, 104, 110, 32, 83, 109, 105, 116, 104, 10>>

\* "1234\t5678\t9012\n": the groups are separated by tabs
PageTabs ==
    <<49, 50, 51, 52, 9, 53, 54, 55, 56, 9, 57, 48, 49, 50, 10>>

\* "\u0661\u0662\u0663\u0664 \u0665\u0666\u0667\u0668 \u0669\u0660\u0661\u0662\n":
\* the twelve digits are Arabic-Indic
PageArabic ==
    <<1633, 1634, 1635, 1636, 32, 1637, 1638, 1639, 1640, 32, 1641, 1632, 1633, 1634, 10>>

\* "S/O Robert Smith\n"
PageScan ==
    <<83, 47, 79, 32, 82, 111, 98, 101, 114, 116, 32, 83, 109, 105, 116, 104, 10>>

\* A page: its native text layer, what OCR would read on it, and whether
\* page.get_text raises on it
PageKinds ==
    { [native |-> PageCard, ocr |-> PageCard, broken |-> FALSE],
      [native |-> PageTabs, ocr |-> PageTabs, broken |-> FALSE],
      [native |-> PageArabic, ocr |-> PageArabic, broken |-> FALSE],
      [native |-> <<>>, ocr |-> PageScan, broken |-> FALSE],
      [native |-> <<>>, ocr |-> <<>>, broken |-> FALSE],
      [native |-> PageCard, ocr |-> PageCard, broken |-> TRUE] }

PageSeqs == UNION {[1..n -> PageKinds] : n \in 0..MaxPages}

\* The uploaded bytes, by what they hold: nothing, no PDF, or a PDF
Contents ==
    {[kind |-> "empty", size |-> 0, encrypted |-> FALSE, pages |-> <<>>]}
    \cup [kind : {"garbage"}, size : {1024}, encrypted : {FALSE}, pages : {<<>>}]
    \cup [kind : {"pdf"}, size : {1024}, encrypted : BOOLEAN, pages : PageSeqs]

\* len(content) of the uploads the boundary sees: the 5MB limit, and one more
UploadSizes == {5 * 1024 * 1024, 5 * 1024 * 1024 + 1}

NoOutcome == [status |-> "none", text |-> <<>>, msg |-> <<>>]
Returned(t) == [status |-> "text", text |-> t, msg |-> <<>>]
Raised(m) == [status |-> "raised", text |-> <<>>, msg |-> m]

NoHttpExc == [status |-> 0, detail |-> <<>>]
HTTPException(status_code, detail) == [status |-> status_code, detail |-> detail]

NoResponse == [status |-> 0, detail |-> <<>>, warning |-> <<>>, data |-> AadhaarData]
ErrorResponse(e) == [status |-> e.status, detail |-> e.detail, warning |-> <<>>, data |-> AadhaarData]
JSONResponse(warning, d) == [status |-> 200, detail |-> <<>>, warning |-> warning, data |-> d]

NoRequest == [filename |-> <<>>, password |-> <<>>,
              content |-> [kind |-> "empty", size |-> 0, encrypted |-> FALSE, pages |-> <<>>]]

\* `not password`: None and "" are false
Falsy(p) == p = NoPassword \/ p = <<>>

Init ==
    /\ pc = "idle" /\ caller = "none" /\ req = NoRequest
    /\ doc = "none" /\ pageNo = 0 /\ text = <<>> /\ exc = <<>>
    /\ outcome = NoOutcome /\ data = AadhaarData
    /\ httpExc = NoHttpExc /\ response = NoResponse
    /\ arg = <<>> /\ result = FALSE

(***************************************************************************)
(* extract_text_from_pdf, statement by statement                           *)
(***************************************************************************)

\* A direct call of extract_text_from_pdf(pdf_bytes, password)
Call ==
    /\ pc = "idle"
    /\ \E p \in Passwords \cup {NoPassword}, c \in Contents :
          req' = [filename |-> <<>>, password |-> p, content |-> c]
    /\ caller' = "core" /\ pc' = "acquire"
    /\ UNCHANGED <<doc, pageNo, text, exc, outcome, data, httpExc, response, arg, result>>

\* lines 85-89: empty bytes raise before the try block is entered
CheckEmpty ==
    /\ pc = "acquire"
    /\ IF req.content.size = 0
       THEN outcome' = Raised(MsgEmptyStream) /\ pc' = "returned"
       ELSE outcome' = outcome /\ pc' = "open"
    /\ UNCHANGED <<caller, req, doc, pageNo, text, exc, data, httpExc, response, arg, result>>

\* lines 92-95: fitz.open
Open ==
    /\ pc = "open"
    /\ IF req.content.kind = "pdf"
       THEN doc' = "open" /\ exc' = exc /\ pc' = "encryption"
       ELSE /\ \E e \in LibraryErrors : exc' = PrefixInvalidFormat \o e
            /\ doc' = doc /\ pc' = "except"
    /\ UNCHANGED <<caller, req, pageNo, text, outcome, data, httpExc, response, arg, result>>

\* lines 97-110: the exception the password handling raises, "" when it passes.
\* authenticates: doc.authenticate(password) is true; error: what it raised, or ""
PasswordCheck(needs_pass, password, authenticates, error) ==
    IF needs_pass
    THEN IF Falsy(password) THEN MsgPasswordRequired
         ELSE IF error /= <<>> THEN PrefixDecryptionFailed \o error
         ELSE IF ~authenticates THEN PrefixDecryptionFailed \o MsgInvalidPassword
         ELSE <<>>
    ELSE IF ~Falsy(password) THEN MsgNotEncrypted
    ELSE <<>>

CheckEncryption ==
    /\ pc = "encryption"
    /\ \E error \in LibraryErrors \cup {<<>>} :
          exc' = PasswordCheck(req.content.encrypted, req.password,
                               req.password = DocPassword, error)
    /\ pc' = IF exc' = <<>> THEN "pages" ELSE "except"
    /\ UNCHANGED <<caller, req, doc, pageNo, text, outcome, data, httpExc, response, arg, result>>

\* lines 113-118: one iteration of the loop over the pages
ExtractPage ==
    /\ pc = "pages"
    /\ pageNo < Len(req.content.pages)
    /\ LET page == req.content.pages[pageNo + 1]
       IN  IF page.broken
           THEN /\ \E e \in LibraryErrors :
                     exc' = PrefixPageError \o str(pageNo + 1) \o <<58, 32>> \o e
                /\ pc' = "except" /\ text' = text /\ pageNo' = pageNo
           ELSE /\ text' = text \o page.native
                /\ pageNo' = pageNo + 1
                /\ pc' = pc /\ exc' = exc
    /\ UNCHANGED <<caller, req, doc, outcome, data, httpExc, response, arg, result>>

\* lines 120-124: after the loop
ValidateText ==
    /\ pc = "pages"
    /\ pageNo = Len(req.content.pages)
    /\ exc' = IF strip(text) = <<>> THEN MsgNoText ELSE <<>>
    /\ pc' = IF strip(text) = <<>> THEN "except" ELSE "finally"
    /\ UNCHANGED <<caller, req, doc, pageNo, text, outcome, data, httpExc, response, arg, result>>

\* lines 126-129: the message the except clause raises for the message caught
Reraise(msg) ==
    IF \E p \in PassThroughPrefixes : startswith(msg, p) THEN msg ELSE PrefixFailed \o msg

Except ==
    /\ pc = "except"
    /\ exc' = Reraise(exc)
    /\ pc' = "finally"
    /\ UNCHANGED <<caller, req, doc, pageNo, text, outcome, data, httpExc, response, arg, result>>

\* line 132, `if doc:`: None is false, and so is an object whose __len__ is 0;
\* len() of a fitz.Document is its page count
Truthy(handle, content) == handle /= "none" /\ Len(content.pages) > 0

\* lines 131-136: close the document if `doc` is true; an error of close() is
\* swallowed ("close_failed").  Then the pending return or raise completes
Finally ==
    /\ pc = "finally"
    /\ \E closes \in BOOLEAN :
          doc' = IF Truthy(doc, req.content)
                 THEN (IF closes THEN "closed" ELSE "close_failed") ELSE doc
    /\ outcome' = IF exc = <<>> THEN Returned(text) ELSE Raised(exc)
    /\ pc' = "returned"
    /\ UNCHANGED <<caller, req, pageNo, text, exc, data, httpExc, response, arg, result>>

\* the direct caller has its result
CallDone ==
    /\ pc = "returned" /\ caller = "core"
    /\ pc' = "done"
    /\ UNCHANGED <<caller, req, doc, pageNo, text, exc, outcome, data, httpExc, response, arg, result>>

(***************************************************************************)
(* POST /extract: extract_aadhaar_info                                     *)
(***************************************************************************)

\* The request arrives: file (name and bytes) and the mandatory password field
Request ==
    /\ pc = "idle"
    /\ \E p \in Passwords, f \in Filenames, c \in Contents :
       \E n \in IF c.size = 0 THEN {0} ELSE {c.size} \cup UploadSizes :
          req' = [filename |-> f, password |-> p, content |-> [c EXCEPT !.size = n]]
    /\ caller' = "boundary" /\ pc' = "check_password"
    /\ UNCHANGED <<doc, pageNo, text, exc, outcome, data, httpExc, response, arg, result>>

\* a boundary without the test of line 78
PasswordCheckSkipped(password) == FALSE

\* line 78: `not password or len(password.strip()) == 0`
PasswordMissing(password) == password = <<>> \/ Len(strip(password)) = 0

\* lines 78-79: raised outside the try block, so it is the response
CheckPassword ==
    /\ pc = "check_password"
    /\ IF PasswordMissing(req.password)
       THEN /\ response' = ErrorResponse(HTTPException(400, DetailPasswordRequired))
            /\ pc' = "done"
       ELSE response' = response /\ pc' = "validate_file"
    /\ UNCHANGED <<caller, req, doc, pageNo, text, exc, outcome, data, httpExc, arg, result>>

\* lines 83-84: the HTTPException the check of the file name raises, or NoHttpExc
FilenameCheck(filename) ==
    IF ~endswith(lower(filename), <<46, 112, 100, 102>>)
    THEN HTTPException(400, DetailOnlyPdf)
    ELSE NoHttpExc

\* lines 89-91: the HTTPException the check of the size raises, or NoHttpExc
SizeCheck(file_size) ==
    IF file_size > 5 * 1024 * 1024 THEN HTTPException(400, DetailTooLarge)
    ELSE NoHttpExc

\* lines 81-84: the try block is entered and the file name checked; the
\* handler then suspends at `await file.read()`
CheckFilename ==
    /\ pc = "validate_file"
    /\ httpExc' = FilenameCheck(req.filename)
    /\ pc' = IF httpExc' = NoHttpExc THEN "read" ELSE "handler_except"
    /\ UNCHANGED <<caller, req, doc, pageNo, text, exc, outcome, data, response, arg, result>>

\* line 88: `content = await file.read()` completes and the handler resumes.
\* The event loop may have run other requests meanwhile; the handler shares
\* no state with them
ReadFile ==
    /\ pc = "read"
    /\ pc' = "check_size"
    /\ UNCHANGED <<caller, req, doc, pageNo, text, exc, outcome, data, httpExc, response, arg, result>>

\* lines 89-103: the size check, the hash and the log line; the handler then
\* suspends at `await file.seek(0)`
CheckSize ==
    /\ pc = "check_size"
    /\ httpExc' = SizeCheck(req.content.size)
    /\ pc' = IF httpExc' = NoHttpExc THEN "seek" ELSE "handler_except"
    /\ UNCHANGED <<caller, req, doc, pageNo, text, exc, outcome, data, response, arg, result>>

\* line 106: `await file.seek(0)` completes; extract_text_from_pdf is called next
Seek ==
    /\ pc = "seek"
    /\ pc' = "acquire"
    /\ UNCHANGED <<caller, req, doc, pageNo, text, exc, outcome, data, httpExc, response, arg, result>>

\* lines 109-113: a failure of extract_text_from_pdf is raised as a 400
\* whose detail is its message, inside the handler's try block
AfterAcquire ==
    /\ pc = "returned" /\ caller = "boundary"
    /\ IF outcome.status = "raised"
       THEN httpExc' = HTTPException(400, outcome.msg) /\ pc' = "handler_except"
       ELSE httpExc' = httpExc /\ pc' = "parse"
    /\ UNCHANGED <<caller, req, doc, pageNo, text, exc, outcome, data, response, arg, result>>

\* lines 115-120
Parse ==
    /\ pc = "parse"
    /\ \E r \in {parse_aadhaar_details(outcome.text)} :
          IF r.raised
          THEN /\ httpExc' = HTTPException(500, DetailParsing)
               /\ pc' = "handler_except" /\ data' = data
          ELSE httpExc' = httpExc /\ pc' = "validate" /\ data' = r.data
    /\ UNCHANGED <<caller, req, doc, pageNo, text, exc, outcome, response, arg, result>>

\* lines 122-138: the response for the record parsed
ValidatedResponse(aadhaar_data) ==
    IF /\ aadhaar_data.aadhaar_number /= <<>>
       /\ ~validate_aadhaar(replace(aadhaar_data.aadhaar_number, 32, <<>>))
    THEN JSONResponse(WarningInvalid, aadhaar_data)
    ELSE JSONResponse(<<>>, aadhaar_data)

Validate ==
    /\ pc = "validate"
    /\ response' = ValidatedResponse(data)
    /\ pc' = "done"
    /\ UNCHANGED <<caller, req, doc, pageNo, text, exc, outcome, data, httpExc, arg, result>>

\* lines 140-142: `except Exception` of the handler's try block; HTTPException
\* is an Exception, so the ones raised inside the block end here
HandlerExcept ==
    /\ pc = "handler_except"
    /\ response' = ErrorResponse(HTTPException(500, DetailInternal))
    /\ pc' = "done"
    /\ UNCHANGED <<caller, req, doc, pageNo, text, exc, outcome, data, httpExc, arg, result>>

Next ==
    \/ Call \/ CheckEmpty \/ Open \/ CheckEncryption \/ ExtractPage \/ ValidateText
    \/ Except \/ Finally \/ CallDone
    \/ Request \/ CheckPassword \/ CheckFilename \/ ReadFile \/ CheckSize \/ Seek
    \/ AfterAcquire \/ Parse \/ Validate
    \/ HandlerExcept

Spec == Init /\ [][Next]_vars

(***************************************************************************)
(* The pure functions on their own: the argument is drawn in the initial   *)
(* state and one step applies the function                                 *)
(***************************************************************************)

\* at most this many lines in a text given to the parser
MaxLines == 2

\* the lines the texts are made of
ParseLines ==
    { <<49, 50, 51, 52, 32, 53, 54, 55, 56, 32, 57, 48, 49, 50>>,     \* "1234 5678 9012"
      <<74, 111, 104, 110, 32, 83, 109, 105, 116, 104>>,             \* "John Smith"
      <<83, 47, 79, 32, 82, 111, 98, 101, 114, 116, 32, 83, 109, 105, 116, 104>>,     \* "S/O Robert Smith"
      <<68, 79, 66, 58, 32, 48, 49, 45, 48, 50, 45, 49, 57, 57, 48>>,      \* "DOB: 01-02-1990"
      <<65, 100, 100, 114, 101, 115, 115, 58, 32, 49, 50, 32, 77, 97, 105, 110, 32, 83, 116>>,  \* "Address: 12 Main St"
      <<86, 73, 68, 32, 58, 32, 49, 50, 51, 52, 32, 53, 54, 55, 56, 32, 57, 48, 49, 50, 32, 51, 52, 53, 54>>,  \* "VID : 1234 5678 9012 3456"
      <<2992, 3006, 2990, 3021>>,  \* a name in Tamil script
      <<>>,                     \* an empty line
      <<32, 9, 32>>,            \* whitespace only
      <<0, 35, 255, 1633>> }    \* no field at all

RECURSIVE Join(_)
\* "\n".join(ls)
Join(ls) ==
    IF ls = <<>> THEN <<>>
    ELSE IF Len(ls) = 1 THEN ls[1]
    ELSE ls[1] \o <<10>> \o Join(Tail(ls))

\* the scenario text of the specification's testable properties: ten lines
Scenario ==
    <<49, 50, 51, 52, 32, 53, 54, 55, 56, 32, 57, 48, 49, 50, 10, 74, 111, 104, 110,
      32, 83, 109, 105, 116, 104, 10, 83, 47, 79, 32, 82, 111, 98, 101, 114, 116, 32,
      83, 109, 105, 116, 104, 10, 68, 79, 66, 58, 32, 48, 49, 45, 48, 50, 45, 49, 57,
      57, 48, 10, 77, 97, 108, 101, 10, 65, 100, 100, 114, 101, 115, 115, 58, 32, 49,
      50, 32, 77, 97, 105, 110, 32, 83, 116, 10, 68, 105, 115, 116, 114, 105, 99, 116,
      58, 32, 67, 104, 101, 110, 110, 97, 105, 10, 83, 116, 97, 116, 101, 58, 32, 84,
      97, 109, 105, 108, 32, 78, 97, 100, 117, 10, 54, 48, 48, 48, 48, 49, 10, 57, 56,
      55, 54, 53, 52, 51, 50, 49, 48>>

ParseInputs ==
    {Join(ls) : ls \in UNION {[1..n -> ParseLines] : n \in 0..MaxLines}} \cup {Scenario}

Idle ==
    /\ caller = "none" /\ req = NoRequest
    /\ doc = "none" /\ pageNo = 0 /\ text = <<>> /\ exc = <<>>
    /\ outcome = NoOutcome /\ data = AadhaarData
    /\ httpExc = NoHttpExc /\ response = NoResponse

InitParse == Idle /\ pc = "parse_input" /\ arg \in ParseInputs /\ result = FALSE

ApplyParse ==
    /\ pc = "parse_input"
    /\ result' = parse_aadhaar_details(arg)
    /\ pc' = "parsed"
    /\ UNCHANGED <<caller, req, doc, pageNo, text, exc, outcome, data, httpExc, response, arg>>

SpecParse == InitParse /\ [][ApplyParse]_vars

\* at most this many digits in a candidate number
MaxDigits == 13

\* "1234567890123..." of length n
DigitRun(n) == [i \in 1..n |-> 48 + (i % 10)]

\* s with the characters c inserted before position p
Inserted(s, p, c) == SubSeq(s, 1, p - 1) \o c \o SubSeq(s, p, Len(s))

\* what is inserted: nothing, a space, two spaces, a tab, a letter, an
\* Arabic-Indic digit, a superscript two
Insertions == {<<>>, <<32>>, <<32, 32>>, <<9>>, <<97>>, <<1633>>, <<178>>}

ValidateInputs ==
    {Inserted(DigitRun(n), p, c) : n \in 10..MaxDigits, p \in 1..5, c \in Insertions}
    \cup {<<>>, <<32>>}

InitValidate == Idle /\ pc = "validate_input" /\ arg \in ValidateInputs /\ result = FALSE

ApplyValidate ==
    /\ pc = "validate_input"
    /\ result' = validate_aadhaar(arg)
    /\ pc' = "validated"
    /\ UNCHANGED <<caller, req, doc, pageNo, text, exc, outcome, data, httpExc, response, arg>>

SpecValidate == InitValidate /\ [][ApplyValidate]_vars

(***************************************************************************)
(* The properties                                                          *)
(***************************************************************************)

\* extract_text_from_pdf has been entered and has not yet returned
InPipeline == pc \in {"acquire", "open", "encryption", "pages", "except", "finally"}

\* doc.authenticate itself raised
AuthenticateRaised ==
    \E e \in LibraryErrors : outcome.msg = PrefixFailed \o PrefixDecryptionFailed \o e

\* the document can be read with the password given
AccessGranted ==
    \/ ~req.content.encrypted /\ Falsy(req.password)
    \/ req.content.encrypted /\ req.password = DocPassword /\ ~AuthenticateRaised

\* C1: when the request passed the password check and extract_text_from_pdf
\* failed, the response is the 400 whose detail is the acquisition message,
\* never the generic "Internal server error".
AcquisitionFailureIsUserFacing ==
    (pc = "done" /\ caller = "boundary" /\ outcome.status = "raised")
        => /\ response.status = 400
           /\ response.detail = outcome.msg
           /\ response.detail /= DetailInternal

\* C2: an unencrypted PDF read with a non-empty password fails with the
\* password-not-needed message itself, not wrapped in another failure, and
\* returns no text.
UnencryptedWithPasswordIsPasswordNotNeeded ==
    (/\ outcome.status /= "none"
     /\ req.content.kind = "pdf" /\ ~req.content.encrypted
     /\ ~Falsy(req.password))
        => outcome = Raised(MsgNotEncrypted)

\* C3: an encrypted PDF fails with the password-required message when no
\* password is given, and with the invalid-password message when the password
\* given does not authenticate; each message reaches the caller unwrapped.
EncryptedFailureKinds ==
    (outcome.status /= "none" /\ req.content.kind = "pdf" /\ req.content.encrypted)
        => /\ Falsy(req.password) => outcome = Raised(MsgPasswordRequired)
           /\ (/\ ~Falsy(req.password)
               /\ req.password /= DocPassword
               /\ ~AuthenticateRaised)
                  => outcome = Raised(MsgInvalidPassword)

\* what a page contributes when OCR stands in for an empty text layer
PageText(page) == IF page.native = <<>> THEN page.ocr ELSE page.native

\* t holds the OCR text of page k, with the texts of the pages before it to
\* its left and of the pages after it to its right
OcrInPlace(t, pages, k) ==
    \E i \in 1..Len(t) :
        /\ i + Len(pages[k].ocr) - 1 <= Len(t)
        /\ SubSeq(t, i, i + Len(pages[k].ocr) - 1) = pages[k].ocr
        /\ \A j \in 1..(k - 1) : Contains(SubSeq(t, 1, i - 1), PageText(pages[j]))
        /\ \A j \in (k + 1)..Len(pages) :
              Contains(SubSeq(t, i + Len(pages[k].ocr), Len(t)), PageText(pages[j]))

\* C4: for a readable document of several pages of which one has an empty
\* text layer that OCR can read, extract_text_from_pdf returns text, and the
\* text holds that page's OCR output at the page's position.
OcrFallbackInPageOrder ==
    (/\ outcome.status /= "none"
     /\ req.content.kind = "pdf" /\ Len(req.content.pages) >= 2
     /\ AccessGranted
     /\ \A k \in 1..Len(req.content.pages) : ~req.content.pages[k].broken)
        => \A k \in 1..Len(req.content.pages) :
              (req.content.pages[k].native = <<>> /\ req.content.pages[k].ocr /= <<>>)
                  => /\ outcome.status = "text"
                     /\ OcrInPlace(outcome.text, req.content.pages, k)

\* v is a string
IsString(v) == v \in Seq(Nat)

\* every character of v is one of t, up to its case, or a space or slash
\* the normalisation of the field wrote
TakenFrom(v, t) ==
    \A i \in 1..Len(v) :
        \/ v[i] \in {32, 47}
        \/ \E j \in 1..Len(t) : v[i] = t[j] \/ Lower(v[i]) = Lower(t[j])

\* what the field's pattern finds in t
PatternMatch(f, t) ==
    CASE f = "aadhaar_number" -> search(AadhaarAt, t)
      [] f = "vid" -> search(VidAt, t)
      [] f = "name_tamil" -> search(TamilNameAt, t)
      [] f = "guardian_name" -> search(GuardianAt, t)
      [] f = "dob" -> search(DobAt, t)
      [] f = "gender" -> search(GenderAt, t)
      [] f = "address" -> search(AddressAt, t)
      [] f = "district" -> search(DistrictAt, t)
      [] f = "state" -> search(StateAt, t)
      [] f = "pincode" -> search(PincodeAt, t)
      [] f = "phone" -> search(PhoneAt, t)

\* C5: parse_aadhaar_details never raises; on every input, the empty string,
\* whitespace and garbage included, it returns a record of all the fields, each
\* empty or taken from the text, and a field whose pattern finds nothing is
\* empty whatever the other fields hold.
ParseIsTotal ==
    pc = "parsed"
        => /\ result.raised = FALSE
           /\ DOMAIN result.data = Fields
           /\ \A f \in Fields :
                 /\ IsString(result.data[f])
                 /\ TakenFrom(result.data[f], arg)
           /\ \A f \in Fields \ {"name"} :
                 PatternMatch(f, arg) = None => result.data[f] = <<>>
           /\ strip(arg) = <<>> => result.data = AadhaarData

\* a text with a line of garbage and an id number: the id is extracted, the
\* VID, which the text does not hold, is empty
ParsedAroundGarbage ==
    /\ pc = "parsed"
    /\ Contains(arg, <<0, 35, 255, 1633>>)
    /\ result.raised = FALSE
    /\ result.data.aadhaar_number /= <<>>
    /\ result.data.vid = <<>>

\* s without its spaces
WithoutSpaces(s) == SelectSeq(s, LAMBDA c : c /= 32)

\* exactly twelve of the digits '0'..'9'
TwelveAsciiDigits(s) == Len(s) = 12 /\ \A i \in 1..Len(s) : s[i] \in 48..57

\* C6: validate_aadhaar(s) is true exactly when s without its spaces is
\* twelve ASCII digits; a digit of another script, a tab or any other
\* character makes it false.
ValidIffTwelveAsciiDigits ==
    pc = "validated" => (result = TRUE <=> TwelveAsciiDigits(WithoutSpaces(arg)))

\* C7: for the ten-line scenario text the parser returns the id number, name,
\* guardian name 'Robert Smith', date of birth, gender, district, state,
\* postal code and phone of the scenario; the guardian name holds nothing of
\* the line after it.
ScenarioFields ==
    (pc = "parsed" /\ arg = Scenario)
        => /\ result.raised = FALSE
           /\ result.data.aadhaar_number = <<49, 50, 51, 52, 32, 53, 54, 55, 56, 32, 57, 48, 49, 50>>
           /\ result.data.name = <<74, 111, 104, 110, 32, 83, 109, 105, 116, 104>>
           /\ result.data.guardian_name = <<82, 111, 98, 101, 114, 116, 32, 83, 109, 105, 116, 104>>
           /\ result.data.dob = <<48, 49, 47, 48, 50, 47, 49, 57, 57, 48>>
           /\ result.data.gender = <<77, 97, 108, 101>>
           /\ result.data.district = <<67, 104, 101, 110, 110, 97, 105>>
           /\ result.data.state = <<84, 97, 109, 105, 108, 32, 78, 97, 100, 117>>
           /\ result.data.pincode = <<54, 48, 48, 48, 48, 49>>
           /\ result.data.phone = <<57, 56, 55, 54, 53, 52, 51, 50, 49, 48>>

\* C8: when acquisition and parsing succeeded the boundary answers 200 with
\* the record; the answer carries a warning exactly when the id number is
\* non-empty and is not twelve ASCII digits once its spaces are removed.
InvalidIdIsWarnedNotRejected ==
    (pc = "done" /\ caller = "boundary" /\ outcome.status = "text")
        => /\ response.status = 200
           /\ response.data = data
           /\ response.warning /= <<>>
                 <=> (/\ data.aadhaar_number /= <<>>
                      /\ ~TwelveAsciiDigits(WithoutSpaces(data.aadhaar_number)))

\* C9: when extract_text_from_pdf returns or raises, the document it opened
\* is no longer open.
OpenedDocumentIsClosed ==
    outcome.status /= "none" => doc /= "open"

\* C10: through the boundary a request with an unencrypted PDF never gets a
\* 200; extract_text_from_pdf only runs with a password that is not empty and
\* not whitespace, and never raises the password-required message.
UnencryptedNeverSucceedsThroughBoundary ==
    caller = "boundary"
        => /\ (req.content.kind = "pdf" /\ ~req.content.encrypted)
                 => response.status /= 200
           /\ (InPipeline \/ outcome.status /= "none")
                 => \E i \in 1..Len(req.password) : ~IsSpace(req.password[i])
           /\ exc /= MsgPasswordRequired
           /\ outcome.msg /= MsgPasswordRequired

\* a request with an unencrypted PDF that has text and a password: the
\* acquisition failed and the answer is not a 200
UnencryptedRejectedAtBoundary ==
    /\ pc = "done" /\ caller = "boundary"
    /\ req.content.kind = "pdf" /\ ~req.content.encrypted
    /\ Len(req.content.pages) > 0 /\ req.content.pages[1].native = PageCard
    /\ outcome = Raised(PrefixFailed \o MsgNotEncrypted)
    /\ response.status \notin {0, 200}

====
